---------------------------- MODULE Spec2Model ----------------------------
(***************************************************************************)
(* MultiTracker of fast_mot/tracker.py: the live track map, next_id and    *)
(* the three public operations initiate, track (propagate) and update      *)
(* (associate), with the two-stage assignment of update.                   *)
(*                                                                         *)
(* The estimator (KalmanFilter), the flow module (Flow) and the detector   *)
(* are collaborators whose results are inputs of the operations: every     *)
(* result they can hand back is drawn from a small set.  A Python          *)
(* exception ends the call where it is raised and is recorded in err.      *)
(***************************************************************************)
EXTENDS Integers, Sequences, FiniteSets, TLC

VARIABLES
    tracks,     \* self.tracks: trk_id -> Track
    next_id,    \* self.next_id
    n_init,     \* self.n_init, read from the configuration at construction
    frame,      \* number of frames handed to the tracker so far
    phase,      \* position of the host's per-frame loop
    err,        \* the exception that ended the last call, or NoError
    assigned,   \* history: the ids handed out so far, in order
    born,       \* history: trk_id -> frame in which the track was created
    miss,       \* history: trk_id -> update calls in a row that left the live
                \* track in the unmatched list, since its last match
    last        \* history: inputs and intermediate lists of the last call

vars == <<tracks, next_id, n_init, frame, phase, err, assigned, born, miss, last>>

---------------------------------------------------------------------------
(* Bounds of the model *)

MaxFrames == 4
MaxDets == 2
MaxId == 3

---------------------------------------------------------------------------
(* Configuration (MultiTracker.config) and module constants.  Fractions    *)
(* are kept as numerator / denominator so that all arithmetic is integer.  *)

max_age == 1
min_register_conf == 5          \* in tenths
max_feature_cost == 1
max_motion_cost == 1
motion_weight_num == 1          \* motion_weight = 1/2
motion_weight_den == 2
min_iou_num == 1                \* min_iou_cost = 1/2
min_iou_den == 2
max_feature_overlap_num == 1    \* max_feature_overlap = 1/3
max_feature_overlap_den == 3
INF_COST == 100000
NInitValues == {1, 2}

---------------------------------------------------------------------------
(* Python values *)

None == <<>>
NoError == "none"
EmptyMap == [x \in {} |-> None]

Min2(a, b) == IF a < b THEN a ELSE b
Max2(a, b) == IF a > b THEN a ELSE b

\* the ids of a set in ascending order: the iteration order of self.tracks,
\* whose keys are inserted in increasing next_id order
SortedSeq(S) ==
    [k \in 1..Cardinality(S) |->
        CHOOSE x \in S : Cardinality({y \in S : y < x}) = k - 1]

Range(s) == {s[i] : i \in 1..Len(s)}

\* [x for x in s if x in S]
FilterSeq(s, S) == SelectSeq(s, LAMBDA x : x \in S)

---------------------------------------------------------------------------
(* Geometry: a Rect is its tlbr tuple <<xmin, ymin, xmax, ymax>>, pixel     *)
(* inclusive.                                                              *)

BoxA == <<0, 0, 3, 3>>
BoxB == <<2, 0, 5, 3>>
BoxOut == <<20, 20, 23, 23>>
frame_rect == <<0, 0, 7, 7>>        \* Rect(tlwh=(0, 0, *size)), size = (8, 8)

DetBoxes == {BoxA, BoxB}            \* boxes a detection can have
KFBoxes == {BoxA, BoxOut}           \* Rect(tlbr=mean[:4]) of an estimator result
FlowBoxes == {None, BoxA}           \* flow_bboxes.get(trk_id)
Labels == {0, 1}
Confs == {5, 8}                     \* in tenths: at and above min_register_conf
\* <<cdist entry, kf.motion_distance entry>> of one (track, detection) cell:
\* both within their gates, the feature distance beyond, the motion distance beyond
DistPairs == {<<1, 1>>, <<2, 2>>}
Homographies == {None, <<2, 0>>}    \* absent, or a translation
KfState == <<"mean", "cov">>

\* Rect.__and__: the intersection, None when the rectangles are disjoint
RectAnd(a, b) ==
    LET x1 == Max2(a[1], b[1])
        y1 == Max2(a[2], b[2])
        x2 == Min2(a[3], b[3])
        y2 == Min2(a[4], b[4])
    IN  IF x2 - x1 + 1 <= 0 \/ y2 - y1 + 1 <= 0 THEN None ELSE <<x1, y1, x2, y2>>

\* Rect.warp(H) for a translation H (track never warps with an absent H)
Warp(r, H) ==
    IF H = None THEN r
    ELSE <<r[1] + H[1], r[2] + H[2], r[3] + H[1], r[4] + H[2]>>

Area(r) == (r[3] - r[1] + 1) * (r[4] - r[2] + 1)

\* one entry of bbox_overlaps, as the fraction <<intersection, union>>
IoU(a, b) ==
    LET i == RectAnd(a, b)
    IN  IF i = None THEN <<0, 1>>
        ELSE <<Area(i), Area(a) + Area(b) - Area(i)>>

FracLess(p, q) == p[1] * q[2] < q[1] * p[2]
FracLeq(p, q) == p[1] * q[2] <= q[1] * p[2]
FracMax(p, q) == IF FracLess(p, q) THEN q ELSE p

---------------------------------------------------------------------------
(* Track and Detection *)

\* Track(label, bbox, trk_id, feature_buf_size); features counts the
\* embeddings update_features has absorbed
NewTrack(label, bbox, trk_id) ==
    [trk_id |-> trk_id, label |-> label, bbox |-> bbox, init_bbox |-> bbox,
     state |-> None, age |-> 0, frames_since_acquired |-> 0,
     confirmed |-> FALSE, features |-> 0]

Det(label, bbox, conf) == [label |-> label, bbox |-> bbox, conf |-> conf]

\* what the detector can report for one object
Detections ==
    {Det(0, BoxA, 8), Det(1, BoxA, 8), Det(0, BoxB, 5)}

DetLists == UNION {[1..n -> Detections] : n \in 0..MaxDets}

NoCall ==
    [op |-> "init", raised |-> FALSE, H |-> None, visited |-> <<>>,
     dets |-> <<>>, confirmed |-> <<>>,
     matches_a |-> <<>>, candidates |-> <<>>, matches_b |-> <<>>,
     matches |-> <<>>, u_trk_ids |-> <<>>, u_det_ids |-> <<>>,
     max_overlaps |-> <<>>, applied |-> 0, lost |-> {},
     registered |-> <<>>, distance_rows |-> <<>>, solver_calls |-> 0,
     u_trk_ids_a |-> <<>>, u_det_ids_a |-> <<>>, u_trk_ids_b |-> <<>>,
     solved |-> <<>>, after_clear |-> FALSE, flow_bboxes |-> EmptyMap]

---------------------------------------------------------------------------
(* initiate(frame, detections), lines 97-108 *)

\* the loop "for det in ...: Track(...); self.tracks[self.next_id] = ...;
\* self.next_id += 1" over the detections regs, starting from map trks and id nid:
\* the k-th of them gets id nid + k - 1
Register(trks, nid, regs) ==
    [i \in DOMAIN trks \cup {nid + k - 1 : k \in 1..Len(regs)} |->
        IF i >= nid /\ i < nid + Len(regs)
        THEN NewTrack(regs[i - nid + 1].label, regs[i - nid + 1].bbox, i)
        ELSE trks[i]]

NewIds(nid, n) == [i \in 1..n |-> nid + i - 1]

\* initiate as it would be if it also restarted the numbering at 1
initiate_restart(detections) ==
    /\ tracks' = Register(EmptyMap, 1, detections)
    /\ next_id' = 1 + Len(detections)
    /\ assigned' = assigned \o NewIds(1, Len(detections))
    /\ born' = [i \in Range(NewIds(1, Len(detections))) |-> frame']
    /\ miss' = [i \in Range(NewIds(1, Len(detections))) |-> 0]
    /\ err' = NoError
    /\ last' = [NoCall EXCEPT !.op = "initiate", !.dets = detections,
                              !.lost = DOMAIN tracks,
                              !.registered = NewIds(1, Len(detections))]

\* initiate without lines 101-102
initiate_keep(detections) ==
    /\ tracks' = Register(tracks, next_id, detections)
    /\ next_id' = next_id + Len(detections)
    /\ assigned' = assigned \o NewIds(next_id, Len(detections))
    /\ born' = [i \in DOMAIN born \cup Range(NewIds(next_id, Len(detections))) |->
                   IF i \in DOMAIN born THEN born[i] ELSE frame']
    /\ miss' = [i \in DOMAIN tracks' |-> 0]
    /\ err' = NoError
    /\ last' = [NoCall EXCEPT !.op = "initiate", !.dets = detections,
                              !.lost = DOMAIN tracks,
                              !.registered = NewIds(next_id, Len(detections))]

initiate(detections) ==
    /\ tracks' = Register(EmptyMap, next_id, detections)
    /\ next_id' = next_id + Len(detections)
    /\ assigned' = assigned \o NewIds(next_id, Len(detections))
    /\ born' = [i \in DOMAIN born \cup Range(NewIds(next_id, Len(detections))) |->
                   IF i \in DOMAIN born THEN born[i] ELSE frame']
    /\ miss' = [i \in Range(NewIds(next_id, Len(detections))) |-> 0]
    /\ err' = NoError
    /\ last' = [NoCall EXCEPT !.op = "initiate", !.dets = detections,
                              !.lost = DOMAIN tracks,
                              !.registered = NewIds(next_id, Len(detections))]

---------------------------------------------------------------------------
(* track(frame), lines 50-95 *)

\* line 62: the warm-up branch is taken after the increment of line 60
WarmUp(t) == t.frames_since_acquired + 1 <= n_init

\* line 74: unpacking an absent state raises TypeError
TrackRaises(t) == ~WarmUp(t) /\ t.state = None

\* lines 70-72 and 91-93: the iteration deletes the track
TrackLost(t, flow_bbox, kf_bbox) ==
    IF WarmUp(t) THEN flow_bbox = None
    ELSE RectAnd(kf_bbox, frame_rect) = None

\* lines 60-90 with line 66 run on every warm-up frame that has a hint
TrackStepEarlyInit(t, flow_bbox, H_camera, kf_bbox) ==
    LET t1 == [t EXCEPT !.frames_since_acquired = @ + 1]
    IN  IF WarmUp(t)
        THEN [t1 EXCEPT !.state = KfState]
        ELSE [t1 EXCEPT !.state = KfState, !.bbox = kf_bbox]

\* lines 60-90 with an "age += 1" in the branch of line 74
TrackStepAging(t, flow_bbox, H_camera, kf_bbox) ==
    LET t1 == [t EXCEPT !.frames_since_acquired = @ + 1]
    IN  IF WarmUp(t)
        THEN IF t1.frames_since_acquired = n_init
             THEN [t1 EXCEPT !.state = KfState]
             ELSE [t1 EXCEPT !.init_bbox = Warp(@, H_camera), !.bbox = flow_bbox]
        ELSE [t1 EXCEPT !.state = KfState, !.bbox = kf_bbox, !.age = @ + 1]

\* lines 60-90 with the else branch of lines 67-69 taken on every warm-up frame
TrackStepNoInit(t, flow_bbox, H_camera, kf_bbox) ==
    LET t1 == [t EXCEPT !.frames_since_acquired = @ + 1]
    IN  IF WarmUp(t)
        THEN [t1 EXCEPT !.init_bbox = Warp(@, H_camera), !.bbox = flow_bbox]
        ELSE [t1 EXCEPT !.state = KfState, !.bbox = kf_bbox]

\* lines 60-90: the track as the iteration leaves it when it keeps it
TrackStep(t, flow_bbox, H_camera, kf_bbox) ==
    LET t1 == [t EXCEPT !.frames_since_acquired = @ + 1]
    IN  IF WarmUp(t)
        THEN IF t1.frames_since_acquired = n_init
             THEN [t1 EXCEPT !.state = KfState]
             ELSE [t1 EXCEPT !.init_bbox = Warp(@, H_camera), !.bbox = flow_bbox]
        ELSE [t1 EXCEPT !.state = KfState, !.bbox = kf_bbox]

\* lines 53-55 without the clear
LiveAfterFlowKeep(trks, H_camera) == trks

\* lines 53-55: the tracks the loop of line 59 runs over
LiveAfterFlow(trks, H_camera) == IF H_camera = None THEN EmptyMap ELSE trks

track ==
    \E H_camera \in Homographies :
      LET live == LiveAfterFlow(tracks, H_camera)
          ids == DOMAIN live
          steady == {i \in ids : ~WarmUp(live[i])}
      IN
      \* flow_bboxes.get(trk_id) of the tracks in warm-up (for the others the
      \* hint only feeds the estimator) and Rect(tlbr=mean[:4]) of the others
      \E flow_bboxes \in [ids \ steady -> FlowBoxes] :
      \E kf_bboxes \in [steady -> KFBoxes] :
        LET raising == {i \in ids : TrackRaises(live[i])}
            stop == IF raising = {} THEN 0
                    ELSE CHOOSE i \in raising : \A j \in raising : i <= j
            done == IF stop = 0 THEN ids ELSE {i \in ids : i < stop}
            kf(i) == IF i \in steady THEN kf_bboxes[i] ELSE None
            hint(i) == IF i \in steady THEN None ELSE flow_bboxes[i]
            kept == {i \in done : ~TrackLost(live[i], hint(i), kf(i))}
            rest == ids \ done
        IN
        /\ tracks' = [i \in kept \cup rest |->
                        IF i \in kept
                        THEN TrackStep(live[i], hint(i), H_camera, kf(i))
                        ELSE IF i = stop
                        THEN [live[i] EXCEPT !.frames_since_acquired = @ + 1]
                        ELSE live[i]]
        /\ err' = IF stop = 0 THEN NoError ELSE "TypeError"
        /\ last' = [NoCall EXCEPT !.op = "track", !.raised = (stop # 0),
                                  !.H = H_camera, !.flow_bboxes = flow_bboxes,
                                  !.visited = SortedSeq(done \cup (IF stop = 0 THEN {} ELSE {stop})),
                                  !.lost = DOMAIN tracks \ (kept \cup rest)]
        /\ miss' = [i \in kept \cup rest |-> miss[i]]
        /\ UNCHANGED <<next_id, assigned, born>>

---------------------------------------------------------------------------
(* Matrices: [R, C, at] with at[i][j] a fraction <<numerator, denominator>>; *)
(* R and C are kept apart so that an R x 0 or 0 x C matrix has its shape.    *)

Matrix(R, C, at) == [R |-> R, C |-> C, at |-> at]
EmptyMatrix(R, C) == Matrix(R, C, [i \in 1..R |-> [j \in 1..C |-> <<0, 1>>]])

FracAdd(p, q) == <<p[1] * q[2] + q[1] * p[2], p[2] * q[2]>>

\* _fuse_motion, lines 292-296: one row of the fused cost
_fuse_motion(cost, motion_dist, label, det_labels) ==
    [j \in 1..Len(cost) |->
        IF \/ cost[j] > max_feature_cost
           \/ motion_dist[j] > max_motion_cost
           \/ label # det_labels[j]
        THEN <<INF_COST, 1>>
        ELSE <<(motion_weight_den - motion_weight_num) * cost[j]
                 + motion_weight_num * motion_dist[j], motion_weight_den>>]

\* _matching_cost, lines 181-210, given cdist's and motion_distance's results
_matching_cost(trks, trk_ids, detections, feature_dist, motion_dist) ==
    IF Len(trk_ids) = 0 \/ Len(detections) = 0
    THEN EmptyMatrix(Len(trk_ids), Len(detections))
    ELSE Matrix(Len(trk_ids), Len(detections),
                [i \in 1..Len(trk_ids) |->
                    _fuse_motion(feature_dist[i], motion_dist[i],
                                 trks[trk_ids[i]].label,
                                 [j \in 1..Len(detections) |-> detections[j].label])])

\* line 196: motion_distance(*track.state, ...) raises TypeError on an absent state
MatchingCostRaises(trks, trk_ids, detections) ==
    /\ Len(trk_ids) # 0
    /\ Len(detections) # 0
    /\ \E i \in 1..Len(trk_ids) : trks[trk_ids[i]].state = None

\* _gate_ious without the label test of line 302
_gate_ious_any_label(ious, trk_label, det_labels) ==
    [j \in 1..Len(ious) |->
        IF FracLess(ious[j], <<min_iou_num, min_iou_den>>) THEN <<0, 1>> ELSE ious[j]]

\* _gate_ious, lines 300-304: one row of the gated IoU matrix
_gate_ious(ious, trk_label, det_labels) ==
    [j \in 1..Len(ious) |->
        IF FracLess(ious[j], <<min_iou_num, min_iou_den>>) \/ trk_label # det_labels[j]
        THEN <<0, 1>>
        ELSE ious[j]]

\* _iou_cost, lines 212-235
_iou_cost(trks, trk_ids, detections) ==
    IF Len(trk_ids) = 0 \/ Len(detections) = 0
    THEN EmptyMatrix(Len(trk_ids), Len(detections))
    ELSE Matrix(Len(trk_ids), Len(detections),
                [i \in 1..Len(trk_ids) |->
                    _gate_ious([j \in 1..Len(detections) |->
                                    IoU(trks[trk_ids[i]].bbox, detections[j].bbox)],
                               trks[trk_ids[i]].label,
                               [j \in 1..Len(detections) |-> detections[j].label])])

---------------------------------------------------------------------------
(* scipy.optimize.linear_sum_assignment: an optimal assignment of          *)
(* min(R, C) cells, returned as the list of <<row, col>> sorted by row.    *)
(* Which optimal assignment is returned on a tie is not specified.         *)

Injective(f) == \A a, b \in DOMAIN f : a # b => f[a] # f[b]

Assignments(R, C) ==
    IF R <= C
    THEN {[i \in 1..R |-> <<i, f[i]>>] : f \in {g \in [1..R -> 1..C] : Injective(g)}}
    ELSE {[k \in 1..C |->
              LET rows == SortedSeq({f[j] : j \in 1..C})
              IN  <<rows[k], CHOOSE j \in 1..C : f[j] = rows[k]>>]
            : f \in {g \in [1..C -> 1..R] : Injective(g)}}

RECURSIVE Total(_, _, _)
Total(cost, sol, k) ==
    IF k > Len(sol) THEN <<0, 1>>
    ELSE FracAdd(cost.at[sol[k][1]][sol[k][2]], Total(cost, sol, k + 1))

linear_sum_assignment(cost, maximize) ==
    LET all == Assignments(cost.R, cost.C)
    IN  {s \in all : \A s2 \in all :
            IF maximize THEN ~FracLess(Total(cost, s, 1), Total(cost, s2, 1))
                        ELSE ~FracLess(Total(cost, s2, 1), Total(cost, s, 1))}

\* lines 244-258: the sentinel / positivity filter on one solver cell
Accepted(cost, cell, maximize) ==
    IF maximize THEN cost.at[cell[1]][cell[2]][1] > 0
    ELSE FracLess(cost.at[cell[1]][cell[2]], <<INF_COST, 1>>)

SelectCells(cost, sol, maximize, keep) ==
    SelectSeq(sol, LAMBDA cell : Accepted(cost, cell, maximize) = keep)

\* _linear_assignment as it would be without lines 249-251 and 256-258: a
\* rejected cell is returned in no list
_linear_assignment_drop(cost, trk_ids, det_ids, maximize, sol) ==
    LET unmatched_rows == SortedSeq((1..cost.R) \ {sol[k][1] : k \in 1..Len(sol)})
        unmatched_cols == SortedSeq((1..cost.C) \ {sol[k][2] : k \in 1..Len(sol)})
        good == SelectCells(cost, sol, maximize, TRUE)
    IN  [matches |-> [k \in 1..Len(good) |-> <<trk_ids[good[k][1]], det_ids[good[k][2]]>>],
         unmatched_trk_ids |->
             [k \in 1..Len(unmatched_rows) |-> trk_ids[unmatched_rows[k]]],
         unmatched_det_ids |->
             [k \in 1..Len(unmatched_cols) |-> det_ids[unmatched_cols[k]]]]

\* line 238 as it would be behind a test for an empty matrix
SolverSkipsEmpty(cost) == cost.R # 0 /\ cost.C # 0

\* line 238: _linear_assignment calls the solver whatever the shape of cost
SolverInvoked(cost) == TRUE

\* _linear_assignment, lines 237-259, given the solver's answer sol
_linear_assignment(cost, trk_ids, det_ids, maximize, sol) ==
    LET unmatched_rows == SortedSeq((1..cost.R) \ {sol[k][1] : k \in 1..Len(sol)})
        unmatched_cols == SortedSeq((1..cost.C) \ {sol[k][2] : k \in 1..Len(sol)})
        good == SelectCells(cost, sol, maximize, TRUE)
        bad == SelectCells(cost, sol, maximize, FALSE)
    IN  [matches |-> [k \in 1..Len(good) |-> <<trk_ids[good[k][1]], det_ids[good[k][2]]>>],
         unmatched_trk_ids |->
             [k \in 1..Len(unmatched_rows) |-> trk_ids[unmatched_rows[k]]]
             \o [k \in 1..Len(bad) |-> trk_ids[bad[k][1]]],
         unmatched_det_ids |->
             [k \in 1..Len(unmatched_cols) |-> det_ids[unmatched_cols[k]]]
             \o [k \in 1..Len(bad) |-> det_ids[bad[k][2]]]]

\* _max_overlaps, lines 272-288: per match, the largest IoU of the matched
\* detection with a track of trk_ids other than the matched one (initial=0)
RECURSIVE MaxOver(_, _)
\* max(initial=0) of a list of fractions
MaxOver(ious, k) ==
    IF k > Len(ious) THEN <<0, 1>>
    ELSE FracMax(ious[k], MaxOver(ious, k + 1))

\* _max_overlaps without the mask trk_ids != trk_id of line 286
_max_overlaps_self(trks, matches, trk_ids, detections) ==
    IF Len(trk_ids) = 0 \/ Len(matches) = 0
    THEN [k \in 1..Len(matches) |-> <<0, 1>>]
    ELSE [k \in 1..Len(matches) |->
            MaxOver([n \in 1..Len(trk_ids) |->
                        IoU(detections[matches[k][2]].bbox, trks[trk_ids[n]].bbox)], 1)]

_max_overlaps(trks, matches, trk_ids, detections) ==
    IF Len(trk_ids) = 0 \/ Len(matches) = 0
    THEN [k \in 1..Len(matches) |-> <<0, 1>>]
    ELSE [k \in 1..Len(matches) |->
            LET others == FilterSeq(trk_ids, Range(trk_ids) \ {matches[k][1]})
            IN  MaxOver([n \in 1..Len(others) |->
                            IoU(detections[matches[k][2]].bbox, trks[others[n]].bbox)], 1)]

---------------------------------------------------------------------------
(* update(detections, embeddings), lines 110-179 *)

\* lines 117-118
ConfirmedIds(trks) == SortedSeq({i \in DOMAIN trks : trks[i].confirmed})
UnconfirmedIds(trks) == SortedSeq({i \in DOMAIN trks : ~trks[i].confirmed})

\* line 125 without its test of age
CandidatesAnyAge(trks, unconfirmed, u_trk_ids_a) == unconfirmed \o u_trk_ids_a

\* line 125 as it would be if it read the confirmed list instead of u_trk_ids_a
CandidatesOfConfirmed(trks, unconfirmed, u_trk_ids_a) ==
    unconfirmed \o FilterSeq(ConfirmedIds(trks), {i \in DOMAIN trks : trks[i].age = 0})

\* line 125
Candidates(trks, unconfirmed, u_trk_ids_a) ==
    unconfirmed \o FilterSeq(u_trk_ids_a, {i \in DOMAIN trks : trks[i].age = 0})

\* line 126
StaleUnmatched(trks, u_trk_ids_a) ==
    FilterSeq(u_trk_ids_a, {i \in DOMAIN trks : trks[i].age # 0})

\* line 143: kf.update(*track.state, ...) raises TypeError on an absent state
MatchRaises(t) == t.state = None

\* lines 144-146 and 155-157: the match deletes the track
MatchLost(kf_bbox) == RectAnd(kf_bbox, frame_rect) = None

\* line 149 with < for <=
AbsorbsFeatureStrict(t, max_overlap) ==
    \/ FracLess(max_overlap, <<max_feature_overlap_num, max_feature_overlap_den>>)
    \/ ~t.confirmed

\* line 149
AbsorbsFeature(t, max_overlap) ==
    \/ FracLeq(max_overlap, <<max_feature_overlap_num, max_feature_overlap_den>>)
    \/ ~t.confirmed

\* lines 143-154, without line 142
ApplyMatchKeepAge(t, max_overlap, kf_bbox) ==
    [t EXCEPT !.state = KfState, !.bbox = kf_bbox,
              !.features = IF AbsorbsFeature(t, max_overlap) THEN @ + 1 ELSE @,
              !.confirmed = TRUE]

\* lines 142-154: the matched track as the iteration leaves it when it keeps it
ApplyMatch(t, max_overlap, kf_bbox) ==
    [t EXCEPT !.age = 0, !.state = KfState, !.bbox = kf_bbox,
              !.features = IF AbsorbsFeature(t, max_overlap) THEN @ + 1 ELSE @,
              !.confirmed = TRUE]

\* line 163 with >= for >
RegistersAtThreshold(det) == det.conf >= min_register_conf

\* line 163
Registers(det) == det.conf > min_register_conf

\* lines 172-179 without the branch of line 172
CleanLostByAgeOnly(t) == t.age + 1 > max_age

\* lines 172-179 with >= at line 177
CleanLostEarly(t) == IF ~t.confirmed THEN TRUE ELSE t.age + 1 >= max_age

\* lines 172-179: the clean-up deletes the unmatched track
CleanLost(t) == IF ~t.confirmed THEN TRUE ELSE t.age + 1 > max_age

\* line 176
CleanStep(t) == [t EXCEPT !.age = @ + 1]

MatchOf(matches, i) == CHOOSE k \in 1..Len(matches) : matches[k][1] = i

\* lines 116-135: the lists of one call, given the solver's two answers
Lists(trks, detections, cost, sol_a, ious_of, sol_b) ==
    LET det_ids == [j \in 1..Len(detections) |-> j]
        confirmed == ConfirmedIds(trks)
        a == _linear_assignment(cost, confirmed, det_ids, FALSE, sol_a)
        candidates == Candidates(trks, UnconfirmedIds(trks), a.unmatched_trk_ids)
        b == _linear_assignment(ious_of, candidates, a.unmatched_det_ids, TRUE, sol_b)
        matches == a.matches \o b.matches
    IN  [matches_a |-> a.matches, candidates |-> candidates, matches_b |-> b.matches,
         u_trk_ids_a |-> a.unmatched_trk_ids, u_det_ids_a |-> a.unmatched_det_ids,
         u_trk_ids_b |-> b.unmatched_trk_ids,
         matches |-> matches,
         u_trk_ids |-> StaleUnmatched(trks, a.unmatched_trk_ids) \o b.unmatched_trk_ids,
         u_det_ids |-> b.unmatched_det_ids,
         max_overlaps |-> _max_overlaps(trks, matches, confirmed, detections)]

\* lines 120-129: the stage-2 matrix, given the solver's answer of stage 1
Stage2Cost(trks, detections, cost, sol_a) ==
    LET a == _linear_assignment(cost, ConfirmedIds(trks),
                                [j \in 1..Len(detections) |-> j], FALSE, sol_a)
        candidates == Candidates(trks, UnconfirmedIds(trks), a.unmatched_trk_ids)
        u_detections == [k \in 1..Len(a.unmatched_det_ids) |->
                            detections[a.unmatched_det_ids[k]]]
    IN  _iou_cost(trks, candidates, u_detections)

\* the first match of the loop of line 138 whose track has no state, or 0
FirstRaising(trks, matches) ==
    LET raising == {k \in 1..Len(matches) : MatchRaises(trks[matches[k][1]])}
    IN  IF raising = {} THEN 0 ELSE CHOOSE k \in raising : \A j \in raising : k <= j

\* lines 138-157: the map after the loop over the matches; the loop ends at
\* match stop when that one raises (stop = 0: it runs to its end)
AfterMatches(trks, l, stop, kf_bboxes) ==
    LET applied == IF stop = 0 THEN Len(l.matches) ELSE stop - 1
        matched == {l.matches[k][1] : k \in 1..applied}
        gone == {l.matches[k][1] : k \in {j \in 1..applied : MatchLost(kf_bboxes[j])}}
    IN  [i \in DOMAIN trks \ gone |->
            IF i \in matched
            THEN ApplyMatch(trks[i], l.max_overlaps[MatchOf(l.matches, i)],
                            kf_bboxes[MatchOf(l.matches, i)])
            ELSE IF stop # 0 /\ i = l.matches[stop][1]
            THEN [trks[i] EXCEPT !.age = 0]
            ELSE trks[i]]

\* lines 161-167: the detections that become tracks, in the order of u_det_ids
NewRegistrations(detections, u_det_ids) ==
    LET reg_ids == FilterSeq(u_det_ids, {j \in 1..Len(detections) : Registers(detections[j])})
    IN  [k \in 1..Len(reg_ids) |-> detections[reg_ids[k]]]

\* lines 170-179: the map after the clean-up loop over u_trk_ids
CleanUp(trks, u_trk_ids) ==
    [i \in DOMAIN trks \ {j \in Range(u_trk_ids) : CleanLost(trks[j])} |->
        IF i \in Range(u_trk_ids) THEN CleanStep(trks[i]) ELSE trks[i]]

update ==
    \E detections \in DetLists :
    \E confirmed \in {ConfirmedIds(tracks)} :
    \E call \in {[NoCall EXCEPT !.op = "update", !.dets = detections,
                                !.confirmed = confirmed,
                                !.after_clear = (last.op = "track" /\ last.H = None)]} :
      IF MatchingCostRaises(tracks, confirmed, detections)
      THEN /\ err' = "TypeError"
           /\ last' = [call EXCEPT !.raised = TRUE]
           /\ UNCHANGED <<tracks, next_id, assigned, born, miss>>
      ELSE
      \* cdist and kf.motion_distance: one row per confirmed track (line 184:
      \* neither is called when there is no track or no detection)
      \E R \in {IF Len(detections) = 0 THEN 0 ELSE Len(confirmed)} :
      \E dist \in [1..R -> [1..Len(detections) -> DistPairs]] :
      \E cost \in {_matching_cost(tracks, confirmed, detections,
                                   [i \in 1..R |-> [j \in 1..Len(detections) |-> dist[i][j][1]]],
                                   [i \in 1..R |-> [j \in 1..Len(detections) |-> dist[i][j][2]]])} :
      \E sol_a \in linear_sum_assignment(cost, FALSE) :
      \E ious \in {Stage2Cost(tracks, detections, cost, sol_a)} :
      \E sol_b \in linear_sum_assignment(ious, TRUE) :
      \E l \in {Lists(tracks, detections, cost, sol_a, ious, sol_b)} :
      \E stop \in {FirstRaising(tracks, l.matches)} :
      \E applied \in {IF stop = 0 THEN Len(l.matches) ELSE stop - 1} :
      \* Rect(tlbr=mean[:4]) of kf.update, per applied match
      \E kf_bboxes \in [1..applied -> KFBoxes] :
      \E after_match \in {AfterMatches(tracks, l, stop, kf_bboxes)} :
      \E lists \in {[call EXCEPT
                        !.matches_a = l.matches_a, !.candidates = l.candidates,
                        !.matches_b = l.matches_b, !.matches = l.matches,
                        !.u_trk_ids = l.u_trk_ids, !.u_det_ids = l.u_det_ids,
                        !.max_overlaps = l.max_overlaps, !.applied = applied,
                        !.u_trk_ids_a = l.u_trk_ids_a, !.u_det_ids_a = l.u_det_ids_a,
                        !.u_trk_ids_b = l.u_trk_ids_b,
                        !.distance_rows = IF R = 0 THEN <<>> ELSE confirmed,
                        !.solved = <<SolverInvoked(cost), SolverInvoked(ious)>>,
                        !.solver_calls = Cardinality({n \in {1, 2} :
                            <<SolverInvoked(cost), SolverInvoked(ious)>>[n]})]} :
        IF stop # 0
        THEN /\ tracks' = after_match
             /\ err' = "TypeError"
             /\ last' = [lists EXCEPT !.raised = TRUE,
                                      !.lost = DOMAIN tracks \ DOMAIN after_match]
             /\ miss' = [i \in DOMAIN after_match |->
                            IF i \in {l.matches[k][1] : k \in 1..applied} THEN 0 ELSE miss[i]]
             /\ UNCHANGED <<next_id, assigned, born>>
        ELSE
        \E regs \in {NewRegistrations(detections, l.u_det_ids)} :
        \E registered \in {Register(after_match, next_id, regs)} :
          /\ next_id + Len(regs) <= MaxId + 1
          /\ tracks' = CleanUp(registered, l.u_trk_ids)
          /\ next_id' = next_id + Len(regs)
          /\ assigned' = assigned \o NewIds(next_id, Len(regs))
          /\ born' = [i \in DOMAIN born \cup Range(NewIds(next_id, Len(regs))) |->
                         IF i \in DOMAIN born THEN born[i] ELSE frame]
          /\ miss' = [i \in DOMAIN tracks' |->
                         IF i \in Range(l.u_trk_ids) THEN miss[i] + 1 ELSE 0]
          /\ err' = NoError
          /\ last' = [lists EXCEPT !.lost = DOMAIN tracks \ DOMAIN tracks',
                                   !.registered = NewIds(next_id, Len(regs))]

---------------------------------------------------------------------------
(* The host: one tracker instance, constructed (lines 28-48) and then      *)
(* driven frame by frame.  Spec is the per-frame protocol, initiate or     *)
(* track followed by update; SpecAny lets the three operations be called   *)
(* in any order.  A raised exception ends the run.                         *)

Init ==
    /\ tracks = EmptyMap
    /\ next_id = 1
    /\ n_init \in NInitValues
    /\ frame = 0
    /\ phase = "new"
    /\ err = NoError
    /\ assigned = <<>>
    /\ born = EmptyMap
    /\ miss = EmptyMap
    /\ last = NoCall

Initiate ==
    /\ err = NoError
    /\ phase \in {"new", "frame"}
    /\ frame < MaxFrames
    /\ frame' = frame + 1
    /\ phase' = "frame"
    /\ \E detections \in DetLists :
          /\ next_id + Len(detections) <= MaxId + 1
          /\ initiate(detections)
    /\ UNCHANGED n_init

Track ==
    /\ err = NoError
    /\ phase = "frame"
    /\ frame < MaxFrames
    /\ frame' = frame + 1
    /\ phase' = "tracked"
    /\ track
    /\ UNCHANGED n_init

Update ==
    /\ err = NoError
    /\ phase = "tracked"
    /\ phase' = "frame"
    /\ update
    /\ UNCHANGED <<n_init, frame>>

Next == Initiate \/ Track \/ Update

Spec == Init /\ [][Next]_vars

\* any order of calls: every call counts as a frame, so that MaxFrames
\* bounds the run
AnyInitiate ==
    /\ err = NoError
    /\ frame < MaxFrames
    /\ frame' = frame + 1
    /\ \E detections \in DetLists :
          /\ next_id + Len(detections) <= MaxId + 1
          /\ initiate(detections)
    /\ UNCHANGED <<n_init, phase>>

AnyTrack ==
    /\ err = NoError
    /\ frame < MaxFrames
    /\ frame' = frame + 1
    /\ track
    /\ UNCHANGED <<n_init, phase>>

AnyUpdate ==
    /\ err = NoError
    /\ frame < MaxFrames
    /\ frame' = frame + 1
    /\ update
    /\ UNCHANGED <<n_init, phase>>

NextAny == AnyInitiate \/ AnyTrack \/ AnyUpdate

SpecAny == Init /\ [][NextAny]_vars

---------------------------------------------------------------------------
(* Properties *)

\* C1: over any order of initiate, track and update calls, every id assigned
\* is greater than all ids assigned before it and is assigned once, every live
\* track is stored under an assigned id, and next_id never decreases
C1_IdsIncreaseNeverReused ==
    /\ [](/\ \A j, k \in 1..Len(assigned) : j < k => assigned[j] < assigned[k]
          /\ \A k \in 1..Len(assigned) : assigned[k] < next_id
          /\ \A i \in DOMAIN tracks : tracks[i].trk_id = i /\ i \in Range(assigned))
    /\ [][/\ next_id' >= next_id
          /\ \A k \in (Len(assigned) + 1)..Len(assigned') : assigned'[k] >= next_id
          /\ \A k \in 1..Len(assigned) : assigned'[k] = assigned[k]]_vars

\* an initiate that replaced live tracks by new ones, when more ids had been
\* assigned than those of the tracks it replaced
C1_ResetAfterRegistration ==
    /\ last.op = "initiate"
    /\ last.lost # {}
    /\ Len(last.registered) > 0
    /\ Len(assigned) > Cardinality(last.lost) + Len(last.registered)

\* C2: between the calls of per-frame processing every live track has
\* age <= max_age and is confirmed or was created in this frame or the one before
C2_LiveTracksBounded ==
    \A i \in DOMAIN tracks :
        /\ tracks[i].age <= max_age
        /\ tracks[i].confirmed \/ born[i] >= frame - 1

\* a confirmed track at age max_age next to an unconfirmed track of the frame before
C2_OldAndYoung ==
    /\ \E i \in DOMAIN tracks : tracks[i].confirmed /\ tracks[i].age = max_age
    /\ \E i \in DOMAIN tracks : ~tracks[i].confirmed /\ born[i] = frame - 1

\* C3: in per-frame processing after initiate no call ends with an exception
C3_NoException == err = NoError

\* C4: a track call with an absent homography leaves no live track and runs
\* the per-track step for none
C4_AbsentHomographyClears ==
    (last.op = "track" /\ last.H = None) =>
        (tracks = EmptyMap /\ last.visited = <<>>)

\* a track call with an absent homography that found two live tracks
C4_ClearedTwo ==
    /\ last.op = "track"
    /\ last.H = None
    /\ Cardinality(last.lost) >= 2

\* C5: in one update call no track id and no detection index is in two matches,
\* and every track live at the call and every detection is in exactly one of
\* the match list, u_trk_ids and u_det_ids
C5_MatchesPartition ==
    [][last'.op = "update" =>
        LET m == last'.matches
            ut == last'.u_trk_ids
            ud == last'.u_det_ids
        IN  /\ \A j, k \in 1..Len(m) : j # k => (m[j][1] # m[k][1] /\ m[j][2] # m[k][2])
            /\ \A k \in 1..Len(m) : m[k][1] \in DOMAIN tracks /\ m[k][2] \in 1..Len(last'.dets)
            /\ Range(ut) \subseteq DOMAIN tracks
            /\ Range(ud) \subseteq 1..Len(last'.dets)
            /\ \A i \in DOMAIN tracks :
                 Cardinality({k \in 1..Len(m) : m[k][1] = i})
                   + Cardinality({k \in 1..Len(ut) : ut[k] = i}) = 1
            /\ \A j \in 1..Len(last'.dets) :
                 Cardinality({k \in 1..Len(m) : m[k][2] = j})
                   + Cardinality({k \in 1..Len(ud) : ud[k] = j}) = 1]_vars

\* an update with a stage-1 match whose stage 2 had a candidate and a detection
\* and matched none: the cell the solver assigned was rejected
C5_RejectedCell ==
    /\ last.op = "update"
    /\ Len(last.matches_a) = 1
    /\ Len(last.candidates) >= 1
    /\ Len(last.dets) = 2
    /\ Len(last.matches_b) = 0
    /\ Len(last.u_trk_ids) >= 1
    /\ Len(last.u_det_ids) = 1

\* C6: after update the live set is the one before the call, less the matched
\* tracks whose new bbox is outside the frame, the unmatched unconfirmed tracks
\* and the unmatched confirmed tracks whose age + 1 exceeds max_age, plus one new
\* track per detection of u_det_ids with conf > min_register_conf
C6_LiveSetAfterUpdate ==
    [][last'.op = "update" =>
        LET matched == {last'.matches[k][1] : k \in 1..Len(last'.matches)}
            unmatched == Range(last'.u_trk_ids)
            evicted == {i \in unmatched : ~tracks[i].confirmed \/ tracks[i].age + 1 > max_age}
            new == Range(last'.registered)
            regs == {j \in Range(last'.u_det_ids) : last'.dets[j].conf > min_register_conf}
        IN  /\ DOMAIN tracks' \cap unmatched = unmatched \ evicted
            /\ (DOMAIN tracks \ DOMAIN tracks') \subseteq (matched \cup evicted)
            /\ \A i \in matched \cap DOMAIN tracks' :
                 RectAnd(tracks'[i].bbox, frame_rect) # None
            /\ DOMAIN tracks' \ DOMAIN tracks = new
            /\ Len(last'.registered) = Cardinality(regs)
            /\ Cardinality(new) = Cardinality(regs)]_vars

\* C7: no match of stage 1 or stage 2 pairs a track with a detection of
\* another label
C7_NoLabelMismatch ==
    [][last'.op = "update" =>
        /\ \A k \in 1..Len(last'.matches_a) :
              tracks[last'.matches_a[k][1]].label = last'.dets[last'.matches_a[k][2]].label
        /\ \A k \in 1..Len(last'.matches_b) :
              tracks[last'.matches_b[k][1]].label = last'.dets[last'.matches_b[k][2]].label]_vars

\* a stage-2 candidate and a detection on the same box with different
\* labels, both left unmatched
C7_SameBoxOtherLabel ==
    /\ last.op = "update"
    /\ ~last.raised
    /\ \E i \in DOMAIN tracks \cap Range(last.u_trk_ids) \cap Range(last.candidates) :
       \E j \in Range(last.u_det_ids) :
          /\ tracks[i].label # last.dets[j].label
          /\ tracks[i].bbox = last.dets[j].bbox

\* C8: no track id is in the stage-1 matches and in the stage-2 candidates of
\* one update call; every candidate is a track live at the call
C8_CandidatesDisjoint ==
    [][last'.op = "update" =>
        \A c \in Range(last'.candidates) :
            /\ c \in DOMAIN tracks
            /\ c \notin {last'.matches_a[k][1] : k \in 1..Len(last'.matches_a)}]_vars

\* an update with a stage-1 match and a confirmed track among the candidates
C8_MatchAndConfirmedCandidate ==
    /\ last.op = "update"
    /\ Len(last.matches_a) >= 1
    /\ Range(last.candidates) \cap Range(last.confirmed) # {}

\* C9: an unconfirmed track left unmatched by both stages is removed in that
\* update call, and an unconfirmed track has age 0
C9_UnconfirmedUnmatchedRemoved ==
    /\ [](\A i \in DOMAIN tracks : ~tracks[i].confirmed => tracks[i].age = 0)
    /\ [][last'.op = "update" =>
            \A i \in Range(last'.u_trk_ids) :
                ~tracks[i].confirmed => i \notin DOMAIN tracks']_vars

\* C10: the age of a confirmed track is the number of update calls in a row
\* that left it unmatched and is at most max_age; such a call keeps the track
\* and adds 1 to its age while that number stays <= max_age, and removes it
\* when it is the (max_age + 1)-th
C10_EvictedWhenAgeExceeds ==
    /\ [](\A i \in DOMAIN tracks :
            tracks[i].confirmed => (tracks[i].age = miss[i] /\ miss[i] <= max_age))
    /\ [][last'.op = "update" =>
            \A i \in Range(last'.u_trk_ids) :
                tracks[i].confirmed =>
                    IF miss[i] + 1 = max_age + 1
                    THEN i \notin DOMAIN tracks'
                    ELSE /\ miss[i] + 1 <= max_age
                         /\ i \in DOMAIN tracks'
                         /\ tracks'[i].age = tracks[i].age + 1]_vars

\* an update that removed a confirmed track it left unmatched
C10_ConfirmedEvicted ==
    /\ last.op = "update"
    /\ last.lost \cap Range(last.u_trk_ids) \cap Range(last.confirmed) # {}

\* C11: after initiate the live tracks are one per detection given, whatever
\* its conf, and none of the tracks live before; the track of the k-th
\* detection is unconfirmed, has age 0 and has the detection's label and bbox
C11_InitiateSeeds ==
    last.op = "initiate" =>
        /\ Len(last.registered) = Len(last.dets)
        /\ Cardinality(DOMAIN tracks) = Len(last.dets)
        /\ DOMAIN tracks = Range(last.registered)
        /\ DOMAIN tracks \cap last.lost = {}
        /\ \A k \in 1..Len(last.dets) :
             LET t == tracks[last.registered[k]]
             IN  /\ ~t.confirmed
                 /\ t.age = 0
                 /\ t.label = last.dets[k].label
                 /\ t.bbox = last.dets[k].bbox

\* an initiate that replaced live tracks, with a detection whose conf does
\* not exceed min_register_conf among those given
C11_ReseedWithLowConf ==
    /\ last.op = "initiate"
    /\ last.lost # {}
    /\ \E k \in 1..Len(last.dets) : last.dets[k].conf <= min_register_conf

C13_AgeSinceLastMatch ==
    /\ [](last.op = "update" =>
            /\ \A k \in 1..Len(last.matches) :
                 last.matches[k][1] \in DOMAIN tracks => tracks[last.matches[k][1]].age = 0
            /\ \A i \in DOMAIN tracks :
                 tracks[i].confirmed =>
                    /\ tracks[i].age = miss[i]
                    /\ tracks[i].age = 0 <=>
                         i \in {last.matches[k][1] : k \in 1..Len(last.matches)})
    /\ [][last'.op = "track" =>
            \A i \in DOMAIN tracks \cap DOMAIN tracks' : tracks'[i].age = tracks[i].age]_vars

\* an update that left live a confirmed track it matched and a confirmed
\* track it did not match
C13_MatchedAndMissed ==
    /\ last.op = "update"
    /\ \E i, j \in DOMAIN tracks :
        /\ tracks[i].confirmed /\ tracks[i].features >= 2
        /\ i \in {last.matches[k][1] : k \in 1..Len(last.matches)}
        /\ tracks[j].confirmed /\ j \in Range(last.u_trk_ids) /\ tracks[j].age = 1

\* C14: a live track with frames_since_acquired > n_init has a state, a live
\* track without state has frames_since_acquired < n_init, and no track call
\* takes the branch of line 74 for a track without state
C14_StateAfterWarmUp ==
    /\ \A i \in DOMAIN tracks :
        /\ tracks[i].frames_since_acquired > n_init => tracks[i].state # None
        /\ tracks[i].state = None => tracks[i].frames_since_acquired < n_init
    /\ last.op = "track" => ~last.raised

\* a track call that took the branch of line 74 for a track, with n_init = 2
C14_PastWarmUp ==
    /\ last.op = "track"
    /\ n_init = 2
    /\ \E i \in DOMAIN tracks : tracks[i].frames_since_acquired > n_init

\* C15: a match whose track is the only confirmed track, or made when there
\* is no confirmed track, has max_overlap 0
C15_NoOtherConfirmedNoOverlap ==
    last.op = "update" =>
        \A k \in 1..Len(last.matches) :
            Range(last.confirmed) \ {last.matches[k][1]} = {}
                => last.max_overlaps[k][1] = 0

\* the only confirmed track, matched with a detection on the box the track
\* is on, in an update that also matched an unconfirmed track
C15_OnlyConfirmedMatched ==
    /\ last.op = "update"
    /\ Len(last.confirmed) = 1
    /\ Len(last.matches_a) = 1
    /\ last.matches_a[1][1] = last.confirmed[1]
    /\ last.dets[last.matches_a[1][2]].bbox = BoxA
    /\ Len(last.matches_b) = 1

\* C16: the update that follows a track call with an absent homography does
\* not raise, matches nothing and leaves as live tracks exactly one new
\* unconfirmed track per detection with conf > min_register_conf, each with
\* an id greater than every id assigned before
C16_ReseedAfterClear ==
    [][(last.op = "track" /\ last.H = None /\ last'.op = "update") =>
        LET regs == {j \in 1..Len(last'.dets) : last'.dets[j].conf > min_register_conf}
        IN  /\ ~last'.raised
            /\ last'.matches = <<>>
            /\ Cardinality(DOMAIN tracks') = Cardinality(regs)
            /\ DOMAIN tracks' = Range(last'.registered)
            /\ \A i \in DOMAIN tracks' :
                 /\ ~tracks'[i].confirmed
                 /\ i >= next_id
                 /\ \A k \in 1..Len(assigned) : i > assigned[k]
                 /\ \E j \in regs : /\ tracks'[i].label = last'.dets[j].label
                                    /\ tracks'[i].bbox = last'.dets[j].bbox]_vars

\* an update after such a track call, when ids had been assigned before, that
\* made a track of one of its two detections and none of the other
C16_ReseededOne ==
    /\ last.op = "update"
    /\ last.after_clear
    /\ Len(last.dets) = 2
    /\ Len(last.registered) = 1
    /\ Len(assigned) > 1

\* C17 as claimed: a matched track that stays in the frame takes the
\* embedding exactly when max_overlap < max_feature_overlap or the track was
\* unconfirmed before the match
C17_AbsorbsBelowThreshold ==
    [][last'.op = "update" =>
        \A k \in 1..last'.applied :
            LET i == last'.matches[k][1]
            IN  i \in DOMAIN tracks' =>
                  /\ tracks'[i].features \in {tracks[i].features, tracks[i].features + 1}
                  /\ tracks'[i].features = tracks[i].features + 1 <=>
                       \/ FracLess(last'.max_overlaps[k],
                                   <<max_feature_overlap_num, max_feature_overlap_den>>)
                       \/ ~tracks[i].confirmed]_vars

\* C17 as the code has it: ... exactly when max_overlap <= max_feature_overlap
\* or the track was unconfirmed before the match
C17_AbsorbsUpToThreshold ==
    [][last'.op = "update" =>
        \A k \in 1..last'.applied :
            LET i == last'.matches[k][1]
            IN  i \in DOMAIN tracks' =>
                  /\ tracks'[i].features \in {tracks[i].features, tracks[i].features + 1}
                  /\ tracks'[i].features = tracks[i].features + 1 <=>
                       \/ FracLeq(last'.max_overlaps[k],
                                  <<max_feature_overlap_num, max_feature_overlap_den>>)
                       \/ ~tracks[i].confirmed]_vars

\* a confirmed track matched with max_overlap equal to max_feature_overlap
\* and left live, in an update that also matched a confirmed track with a
\* larger max_overlap
C17_AtThreshold ==
    /\ last.op = "update"
    /\ \E k \in 1..last.applied :
        /\ last.matches[k][1] \in Range(last.confirmed) \cap DOMAIN tracks
        /\ last.max_overlaps[k][1] * max_feature_overlap_den
             = max_feature_overlap_num * last.max_overlaps[k][2]
    /\ \E k \in 1..last.applied :
        /\ last.matches[k][1] \in Range(last.confirmed) \cap DOMAIN tracks
        /\ last.max_overlaps[k][1] * max_feature_overlap_den
             > max_feature_overlap_num * last.max_overlaps[k][2]

\* C18: the stage-2 candidates are the unconfirmed tracks and the confirmed
\* tracks that stage 1 left unmatched and that had age 0 at the call; a
\* confirmed track with age # 0 that stage 1 left unmatched is in no stage-2
\* match and the call adds 1 to its age or removes it; no unconfirmed track
\* is in a stage-1 match
C18_Stage2Candidates ==
    [][last'.op = "update" =>
        LET in_a == {last'.matches_a[k][1] : k \in 1..Len(last'.matches_a)}
            in_b == {last'.matches_b[k][1] : k \in 1..Len(last'.matches_b)}
        IN  /\ Range(last'.candidates) =
                 {i \in DOMAIN tracks : ~tracks[i].confirmed}
                   \cup {i \in DOMAIN tracks :
                           tracks[i].confirmed /\ i \notin in_a /\ tracks[i].age = 0}
            /\ \A i \in DOMAIN tracks :
                 (tracks[i].confirmed /\ tracks[i].age # 0 /\ i \notin in_a) =>
                    /\ i \notin in_b
                    /\ i \in Range(last'.u_trk_ids)
                    /\ \/ i \notin DOMAIN tracks'
                       \/ tracks'[i].age = tracks[i].age + 1
            /\ \A i \in in_a : tracks[i].confirmed]_vars

\* an update where stage 1 left unmatched a confirmed track that was not
\* taken as candidate, while stage 2 matched a track and left a detection
C18_StaleNotCandidate ==
    /\ last.op = "update"
    /\ Range(last.u_trk_ids_a) \ Range(last.candidates) # {}
    /\ Len(last.matches_b) >= 1
    /\ Len(last.u_det_ids) >= 1

\* C19: in a track call with a homography, a track with
\* frames_since_acquired + 1 <= n_init is removed when it has no hint; with a
\* hint it stays, and gets its state when frames_since_acquired + 1 = n_init,
\* while before that its state stays absent, its init_bbox is warped and its
\* bbox becomes the hint
C19_WarmUpStep ==
    [][(last'.op = "track" /\ last'.H # None) =>
        \A i \in DOMAIN tracks :
            tracks[i].frames_since_acquired + 1 <= n_init =>
              IF last'.flow_bboxes[i] = None
              THEN i \notin DOMAIN tracks'
              ELSE /\ i \in DOMAIN tracks'
                   /\ tracks'[i].frames_since_acquired = tracks[i].frames_since_acquired + 1
                   /\ IF tracks[i].frames_since_acquired + 1 = n_init
                      THEN tracks[i].state = None /\ tracks'[i].state # None
                      ELSE /\ tracks'[i].state = None
                           /\ tracks'[i].init_bbox = Warp(tracks[i].init_bbox, last'.H)
                           /\ tracks'[i].bbox = last'.flow_bboxes[i]]_vars

\* with n_init = 2, a track call that gave a track its state on its second
\* frame and removed a track without hint
C19_SecondFrameInit ==
    /\ last.op = "track"
    /\ last.H # None
    /\ n_init = 2
    /\ \E i \in DOMAIN tracks :
         tracks[i].frames_since_acquired = 2 /\ tracks[i].state # None
    /\ \E i \in last.lost : last.flow_bboxes[i] = None

\* C20: a track call adds no track, leaves next_id, and leaves the trk_id,
\* label, age and confirmed of every track it keeps; an update call leaves
\* frames_since_acquired of every track it keeps
C20_FrameEffects ==
    [][/\ last'.op = "track" =>
            /\ DOMAIN tracks' \subseteq DOMAIN tracks
            /\ next_id' = next_id
            /\ \A i \in DOMAIN tracks' :
                 /\ tracks'[i].trk_id = tracks[i].trk_id
                 /\ tracks'[i].label = tracks[i].label
                 /\ tracks'[i].age = tracks[i].age
                 /\ tracks'[i].confirmed = tracks[i].confirmed
       /\ last'.op = "update" =>
            \A i \in DOMAIN tracks \cap DOMAIN tracks' :
                tracks'[i].frames_since_acquired = tracks[i].frames_since_acquired]_vars

\* a track call that removed a track and took the branch of line 74 for a
\* confirmed track it kept
C20_KeptAndRemoved ==
    /\ last.op = "track"
    /\ last.H # None
    /\ last.lost # {}
    /\ \E i \in DOMAIN tracks :
         tracks[i].confirmed /\ tracks[i].frames_since_acquired >= 2

=============================================================================
